---- MODULE Spec2Model ----
(***************************************************************************)
(* A model of the exaroton API client: the Exaroton class of               *)
(* src/exaroton/exaroton.py and the data holders of src/exaroton/types.py. *)
(*                                                                         *)
(* Python values are tagged records [t |-> <type name>, v |-> <payload>];  *)
(* a raised exception is the value Raise(<exception class>) and propagates *)
(* through every operator that receives it.  A dict (and an object's       *)
(* __dict__) is a sequence of <<key, value>> pairs in insertion order.     *)
(***************************************************************************)
EXTENDS Integers, Sequences, FiniteSets, TLC

VARIABLES
    self,        \* the Exaroton instance: [host, session]
    arg_token,   \* the token __init__ was called with
    arg_host,    \* the host __init__ was called with
    call,        \* the public method (or _make_request) invoked last, with its arguments
    request,     \* the arguments of the last self._session.request(...)
    response,    \* what the transport answered to it
    dispatched,  \* what the last _make_request returned (or raised)
    returned,    \* what the last invoked method returned (or raised)
    ncalls,      \* invocations of public methods so far
    nrequests,   \* calls of self._session.request so far
    nwrites,     \* invocations of write_file_data so far
    payload,     \* the keyword arguments of the last domain type constructed
    obj,         \* the domain value constructed last
    rendered     \* str(obj): the lines json.dumps(..., indent=4) wrote

vars == <<self, arg_token, arg_host, call, request, response, dispatched,
          returned, ncalls, nrequests, nwrites, payload, obj, rendered>>

clientVars == <<self, arg_token, arg_host>>
callVars == <<call, request, response, dispatched, returned, ncalls, nrequests, nwrites>>
typeVars == <<payload, obj, rendered>>

-----------------------------------------------------------------------------
(* Bounds of the model. *)

\* Public method invocations explored per behaviour.
MaxCalls == 2
\* Status codes range over -1 .. MaxStatusCode.
MaxStatusCode == 11

-----------------------------------------------------------------------------
(* Python values. *)

None == [t |-> "NoneType", v |-> ""]
PyStr(s) == [t |-> "str", v |-> s]
PyInt(n) == [t |-> "int", v |-> n]
PyBool(b) == [t |-> "bool", v |-> b]
PyBytes(s) == [t |-> "bytes", v |-> s]
PyList(seq) == [t |-> "list", v |-> seq]
PyDict(pairs) == [t |-> "dict", v |-> pairs]
Raise(exc) == [t |-> "raise", v |-> exc]

IsRaise(x) == x.t = "raise"
IsNone(x) == x.t = "NoneType"

\* The keys of a dict.
KeySet(d) == {d.v[i][1] : i \in 1..Len(d.v)}
\* d[key] for a key the dict holds.
Lookup(d, key) == d.v[CHOOSE i \in 1..Len(d.v) : d.v[i][1] = key][2]

\* x[key] with a str key: a dict is looked up, anything else is not
\* subscriptable by a str (None, int, bool) or wants integer indices (str,
\* bytes, list).
GetItem(x, key) ==
    IF IsRaise(x) THEN x
    ELSE IF x.t = "dict"
         THEN IF key \in KeySet(x) THEN Lookup(x, key) ELSE Raise("KeyError")
         ELSE Raise("TypeError")

-----------------------------------------------------------------------------
(* JSON on the wire.  A body is the text the server sent; parsing it is the *)
(* inverse of serialisation over the documents below, and any other text is *)
(* not JSON.                                                                *)

RECURSIVE JsonText(_)
JsonText(x) ==
    LET RECURSIVE Items(_, _)
        Items(seq, i) ==
            IF i > Len(seq) THEN ""
            ELSE (IF i > 1 THEN "," ELSE "") \o JsonText(seq[i]) \o Items(seq, i + 1)
        RECURSIVE Members(_, _)
        Members(seq, i) ==
            IF i > Len(seq) THEN ""
            ELSE (IF i > 1 THEN "," ELSE "") \o "\"" \o seq[i][1] \o "\":"
                 \o JsonText(seq[i][2]) \o Members(seq, i + 1)
    IN CASE x.t = "NoneType" -> "null"
         [] x.t = "bool" -> IF x.v THEN "true" ELSE "false"
         [] x.t = "int" -> ToString(x.v)
         [] x.t = "str" -> "\"" \o x.v \o "\""
         [] x.t = "list" -> "[" \o Items(x.v, 1) \o "]"
         [] x.t = "dict" -> "{" \o Members(x.v, 1) \o "}"

Envelope(data) == PyDict(<< <<"success", PyBool(TRUE)>>, <<"error", None>>, <<"data", data>> >>)
ErrorDoc == PyDict(<< <<"success", PyBool(FALSE)>>, <<"error", PyStr("Not found")>> >>)

AccountPayload ==
    PyDict(<< <<"name", PyStr("colin")>>, <<"email", PyStr("c@example.com")>>,
            <<"verified", PyBool(TRUE)>>, <<"credits", PyInt(5)>> >>)

PlayersPayload(names) ==
    PyDict(<< <<"max", PyInt(20)>>, <<"count", PyInt(Len(names))>>, <<"list", PyList(names)>> >>)

SoftwarePayload(version) ==
    PyDict(<< <<"id", PyStr("vanilla")>>, <<"name", PyStr("Vanilla")>>, <<"version", version>> >>)

ServerPayload(id, status, motd, names, version) ==
    PyDict(<< <<"id", PyStr(id)>>, <<"name", PyStr("MyServer")>>,
            <<"address", PyStr("mc.example.com")>>, <<"motd", motd>>,
            <<"status", status>>, <<"host", PyStr("1.2.3.4")>>, <<"port", PyInt(25565)>>,
            <<"players", PlayersPayload(names)>>,
            <<"software", SoftwarePayload(version)>>, <<"shared", PyBool(FALSE)>> >>)

Server1 == ServerPayload("abc123", PyInt(1), PyStr("hi"), <<PyStr("a"), PyStr("b")>>, PyStr("1.20"))
Server2 == ServerPayload("def456", PyInt(9), None, << >>, None)

LogsPayload ==
    PyDict(<< <<"id", PyStr("L1")>>, <<"url", PyStr("https://mclo.gs/L1")>>,
            <<"raw", PyStr("https://api.mclo.gs/1/raw/L1")>> >>)

Pool(id) == PyDict(<< <<"id", PyStr(id)>>, <<"name", PyStr("pool")>>, <<"credits", PyInt(7)>> >>)
Member(name) == PyDict(<< <<"account", PyStr(name)>>, <<"isOwner", PyBool(FALSE)>> >>)

JsonDocs ==
    { Envelope(AccountPayload), Envelope(Server1), Envelope(Server2),
      Envelope(PyList(<<Server1, Server2>>)), Envelope(PyList(<<Server2, Server1>>)),
      Envelope(PyList(<< >>)), Envelope(None), Envelope(PyStr("x")),
      Envelope(LogsPayload), Envelope(PyDict(<< <<"content", PyStr("[12:00] Done")>> >>)),
      Envelope(PyDict(<< <<"ram", PyInt(4)>> >>)),
      Envelope(PyList(<<PyStr("whitelist"), PyStr("ops")>>)),
      Envelope(PyList(<<PyStr("alex"), PyStr("steve")>>)),
      Envelope(Pool("p1")), Envelope(PyList(<<Pool("p1"), Pool("p2")>>)),
      Envelope(PyList(<<Pool("p2"), Pool("p1")>>)),
      Envelope(PyList(<<Member("m1"), Member("m2")>>)),
      ErrorDoc }

\* The document each JSON text parses to.
JsonParsed == [text \in {JsonText(d) : d \in JsonDocs} |->
                  CHOOSE d \in JsonDocs : JsonText(d) = text]

\* req.json()
JsonLoads(text) ==
    IF text \in DOMAIN JsonParsed THEN JsonParsed[text] ELSE Raise("JSONDecodeError")

\* Bodies that are not JSON; the last is not UTF-8 either.
HelloText == "Hello, world!"
PngBytes == "\\x89PNG\\r\\n\\x1a\\n"
NotUtf8 == {PngBytes}

\* bytes.decode(content, "utf8")
Utf8Decode(content) ==
    IF content \in NotUtf8 THEN Raise("UnicodeDecodeError") ELSE PyStr(content)

-----------------------------------------------------------------------------
(* The domain types of types.py.  An instance is [t |-> <class name>,      *)
(* v |-> its __dict__]; a types.List is [t |-> "List", v |-> <elements>].  *)

Obj(cls, attrs) == [t |-> cls, v |-> attrs]
TypesList(seq) == [t |-> "List", v |-> seq]

StatusCodes == {0, 1, 2, 3, 4, 5, 6, 7, 8, 10}

_status_map_off_by_one ==
    [c \in {0, 1, 2, 3, 4, 5, 6, 7, 8, 9} |->
        CASE c = 0 -> "Offline" [] c = 1 -> "Online" [] c = 2 -> "Starting"
          [] c = 3 -> "Stopping" [] c = 4 -> "Restarting" [] c = 5 -> "Saving"
          [] c = 6 -> "Loading" [] c = 7 -> "Crashed" [] c = 8 -> "Pending"
          [] c = 9 -> "Preparing"]

_status_map ==
    [c \in StatusCodes |->
        CASE c = 0 -> "Offline" [] c = 1 -> "Online" [] c = 2 -> "Starting"
          [] c = 3 -> "Stopping" [] c = 4 -> "Restarting" [] c = 5 -> "Saving"
          [] c = 6 -> "Loading" [] c = 7 -> "Crashed" [] c = 8 -> "Pending"
          [] c = 10 -> "Preparing"]

\* _status_map.get(status): a key is found by hash and equality, so True and
\* False find 1 and 0; a list or a dict is unhashable; a missing key gives None.
StatusLabel(status) ==
    LET key == IF status.t = "int" THEN status.v
               ELSE IF status.t = "bool" THEN (IF status.v THEN 1 ELSE 0)
               ELSE -1
    IN IF status.t \in {"list", "dict"} THEN Raise("TypeError")
       ELSE IF status.t \in {"int", "bool"} /\ key \in DOMAIN _status_map
            THEN PyStr(_status_map[key])
            ELSE None

\* cls(**kwargs) for a class whose __init__ takes exactly the parameters
\* params and stores each under its own name: kwargs must be a mapping that
\* binds every parameter and nothing else.
Binds(kwargs, params) ==
    /\ kwargs.t = "dict"
    /\ KeySet(kwargs) = {params[i] : i \in 1..Len(params)}

New(cls, params, kwargs) ==
    IF IsRaise(kwargs) THEN kwargs
    ELSE IF ~Binds(kwargs, params) THEN Raise("TypeError")
    ELSE Obj(cls, [i \in 1..Len(params) |-> <<params[i], Lookup(kwargs, params[i])>>])

Account(kwargs) == New("Account", <<"name", "email", "verified", "credits">>, kwargs)
Software(kwargs) == New("Software", <<"id", "name", "version">>, kwargs)
Players(kwargs) == New("Players", <<"max", "count", "list">>, kwargs)
Logs(kwargs) == New("Logs", <<"id", "url", "raw">>, kwargs)

ServerParams ==
    <<"id", "name", "address", "motd", "status", "host", "port", "players",
      "software", "shared">>

\* Server.__init__: the attributes are assigned in order, and the first
\* expression that raises ends the construction.
Server(kwargs) ==
    IF IsRaise(kwargs) THEN kwargs
    ELSE IF ~Binds(kwargs, ServerParams) THEN Raise("TypeError")
    ELSE LET status == StatusLabel(Lookup(kwargs, "status"))
             players == Players(Lookup(kwargs, "players"))
             software == Software(Lookup(kwargs, "software"))
         IN IF IsRaise(status) THEN status
            ELSE IF IsRaise(players) THEN players
            ELSE IF IsRaise(software) THEN software
            ELSE Obj("Server",
                     << <<"id", Lookup(kwargs, "id")>>,
                        <<"name", Lookup(kwargs, "name")>>,
                        <<"address", Lookup(kwargs, "address")>>,
                        <<"motd", Lookup(kwargs, "motd")>>,
                        <<"status", status>>,
                        <<"host", Lookup(kwargs, "host")>>,
                        <<"port", Lookup(kwargs, "port")>>,
                        <<"players", players>>,
                        <<"software", software>>,
                        <<"shared", Lookup(kwargs, "shared")>> >>)

\* types.<cls>(**kwargs): the class is looked up in the module types, which
\* defines Account, Server, Software, Players and Logs.  It defines no
\* CreditPool and no CreditPoolMember, so for these the attribute lookup
\* raises before the call.  (An interpreter that evaluates annotations when
\* a function is defined raises the same AttributeError for the return
\* annotations of the credit pool methods while exaroton.py is imported, and
\* then no client exists and nothing below is ever invoked.)
TypesCall(cls, kwargs) ==
    IF IsRaise(kwargs) THEN kwargs
    ELSE CASE cls = "Account" -> Account(kwargs)
           [] cls = "Server" -> Server(kwargs)
           [] cls = "Software" -> Software(kwargs)
           [] cls = "Players" -> Players(kwargs)
           [] cls = "Logs" -> Logs(kwargs)
           [] OTHER -> Raise("AttributeError")

\* iter(data), as the generator expression `... for data in _data` evaluates
\* it at once: a list gives its elements, a dict its keys, a str its
\* characters (each a str of length one; which character is not modelled);
\* None, an int or a bool is not iterable.
Iter(data) ==
    IF IsRaise(data) THEN data
    ELSE IF data.t = "list" THEN data
    ELSE IF data.t = "dict" THEN PyList([i \in 1..Len(data.v) |-> PyStr(data.v[i][1])])
    ELSE IF data.t = "str" THEN PyList([i \in 1..Len(data.v) |-> PyStr("?")])
    ELSE Raise("TypeError")

\* types.List(types.<cls>(**data) for data in _data): the elements are
\* constructed in order while the list is filled, and the first one that
\* raises ends it.
ListOf(cls, data) ==
    LET it == Iter(data)
        objs == [i \in 1..Len(it.v) |-> TypesCall(cls, it.v[i])]
        bad == {i \in 1..Len(it.v) : IsRaise(objs[i])}
    IN IF IsRaise(it) THEN it
       ELSE IF bad # {} THEN objs[CHOOSE i \in bad : \A j \in bad : i <= j]
       ELSE TypesList(objs)

-----------------------------------------------------------------------------
(* The human-readable rendering: json.dumps(self, indent=4, default=...).  *)
(* The text is modelled line by line: a line has a nesting level (four     *)
(* spaces each), the key it belongs to ("" for an array element and for    *)
(* the top level), its text and whether a comma ends it.                   *)

Line(level, key, text, comma) == [indent |-> level, key |-> key, text |-> text, comma |-> comma]

\* The names that start with an underscore among the attributes in use.
StartsWithUnderscore(attr) == attr \in {"_host", "_session"}

\* ExarotonType.default without the `is not None` filter.
default_keeps_none(o) ==
    IF o.t = "bytes" THEN PyStr("b'" \o o.v \o "'")
    ELSE PyDict(<< <<"_", PyStr(o.t)>> >> \o
                SelectSeq(o.v, LAMBDA a : ~StartsWithUnderscore(a[1])))

\* ExarotonType.default
default(o) ==
    IF o.t = "bytes" THEN PyStr("b'" \o o.v \o "'")
    ELSE PyDict(<< <<"_", PyStr(o.t)>> >> \o
                SelectSeq(o.v, LAMBDA a : ~StartsWithUnderscore(a[1]) /\ ~IsNone(a[2])))

\* json.dumps with indent=4: what the encoder writes for x at a nesting
\* level; a value it cannot serialise goes through default first.
RECURSIVE Dumps(_, _, _, _)
Dumps(x, level, key, comma) ==
    LET RECURSIVE Elements(_, _)
        Elements(seq, i) ==
            IF i > Len(seq) THEN << >>
            ELSE Dumps(seq[i], level + 1, "", i < Len(seq)) \o Elements(seq, i + 1)
        RECURSIVE Members(_, _)
        Members(seq, i) ==
            IF i > Len(seq) THEN << >>
            ELSE Dumps(seq[i][2], level + 1, seq[i][1], i < Len(seq)) \o Members(seq, i + 1)
    IN CASE x.t = "NoneType" -> <<Line(level, key, "null", comma)>>
         [] x.t = "bool" -> <<Line(level, key, IF x.v THEN "true" ELSE "false", comma)>>
         [] x.t = "int" -> <<Line(level, key, ToString(x.v), comma)>>
         [] x.t = "str" -> <<Line(level, key, "\"" \o x.v \o "\"", comma)>>
         [] x.t \in {"list", "List"} ->
              IF x.v = << >> THEN <<Line(level, key, "[]", comma)>>
              ELSE <<Line(level, key, "[", FALSE)>> \o Elements(x.v, 1)
                   \o <<Line(level, "", "]", comma)>>
         [] x.t = "dict" ->
              IF x.v = << >> THEN <<Line(level, key, "{}", comma)>>
              ELSE <<Line(level, key, "{", FALSE)>> \o Members(x.v, 1)
                   \o <<Line(level, "", "}", comma)>>
         [] OTHER -> Dumps(default(x), level, key, comma)

\* ExarotonType.__str__, which List.__str__ calls too.
__str__(x) == Dumps(x, 0, "", FALSE)

-----------------------------------------------------------------------------
(* The transport: requests.Session. *)

NoHeaders == [h \in {} |-> ""]
DefaultHeaders == [h \in {"Accept"} |-> "*/*"]

\* A response, or the exception the transport raised instead of one.
Response(ctype, content, status) ==
    [raised |-> "", status |-> status,
     headers |-> [h \in {"content-type"} |-> ctype], content |-> content]
ResponseNoType(content, status) ==
    [raised |-> "", status |-> status, headers |-> NoHeaders, content |-> content]
ConnectionError ==
    [raised |-> "ConnectionError", status |-> 0, headers |-> NoHeaders, content |-> ""]

NoRequest == [method |-> "", url |-> "", headers |-> NoHeaders, json |-> None]
NoResponse == [raised |-> "", status |-> 0, headers |-> NoHeaders, content |-> ""]
NoCall == [op |-> "", args |-> << >>]

Tokens == {"tokenA", "tokenB"}
Hosts == {"https://api.exaroton.com/v1", "http://localhost:8080"}

\* __init__ with the token put in the header bare.
__init__without_scheme(token, host) ==
    [host |-> host,
     session |-> [headers |-> [h \in {"Authorization"} |-> token] @@ DefaultHeaders]]

\* Exaroton.__init__
__init__(token, host) ==
    [host |-> host,
     session |-> [headers |-> [h \in {"Authorization"} |-> "Bearer " \o token] @@ DefaultHeaders]]

\* _make_request giving up on a status other than 200 before it decodes.
_make_request_by_status(path, method, json, resp) ==
    LET sent == [method |-> method, url |-> self.host \o "/" \o path,
                 headers |-> self.session.headers, json |-> json]
        content_type == resp.headers["content-type"]
        out == IF resp.raised # "" THEN Raise(resp.raised)
               ELSE IF resp.status # 200 THEN None
               ELSE IF "content-type" \notin DOMAIN resp.headers THEN Raise("KeyError")
               ELSE IF content_type = "application/json" THEN JsonLoads(resp.content)
               ELSE IF content_type = "text/plain;charset=UTF-8" THEN Utf8Decode(resp.content)
               ELSE IF content_type = "application/octet-stream" THEN PyBytes(resp.content)
               ELSE IF content_type = "image/png" THEN PyBytes(resp.content)
               ELSE None
    IN [sent |-> sent, out |-> out]

\* Exaroton._make_request: the request handed to the session, and the value
\* returned (or the exception raised) for the response resp.
_make_request(path, method, json, resp) ==
    LET sent == [method |-> method, url |-> self.host \o "/" \o path,
                 headers |-> self.session.headers, json |-> json]
        content_type == resp.headers["content-type"]
        out == IF resp.raised # "" THEN Raise(resp.raised)
               ELSE IF "content-type" \notin DOMAIN resp.headers THEN Raise("KeyError")
               ELSE IF content_type = "application/json" THEN JsonLoads(resp.content)
               ELSE IF content_type = "text/plain;charset=UTF-8" THEN Utf8Decode(resp.content)
               ELSE IF content_type = "application/octet-stream" THEN PyBytes(resp.content)
               ELSE IF content_type = "image/png" THEN PyBytes(resp.content)
               ELSE None
    IN [sent |-> sent, out |-> out]

-----------------------------------------------------------------------------
(* SpecDispatch: _make_request alone, on every path, verb and response.    *)

ContentTypes ==
    {"application/json", "text/plain;charset=UTF-8", "application/octet-stream",
     "image/png", "text/plain", "text/plain; charset=utf-8", "text/plain;charset=ISO-8859-1",
     "text/html"}
DispatchBodies == {JsonText(Envelope(None)), JsonText(ErrorDoc), HelloText, PngBytes}
Statuses == {200, 404}
DispatchResponses ==
    {Response(c, b, s) : c \in ContentTypes, b \in DispatchBodies, s \in Statuses}
    \cup {ResponseNoType(b, s) : b \in DispatchBodies, s \in Statuses}
    \cup {ConnectionError}
DispatchPaths == {"account", "servers/abc123/files/data/icon.png"}
Verbs == {"get", "post"}

InitClient ==
    \E token \in Tokens, host \in Hosts :
        /\ self = __init__(token, host)
        /\ arg_token = token
        /\ arg_host = host

InitCalls ==
    /\ call = NoCall
    /\ request = NoRequest
    /\ response = NoResponse
    /\ dispatched = None
    /\ returned = None
    /\ ncalls = 0
    /\ nrequests = 0
    /\ nwrites = 0

InitTypes ==
    /\ payload = None
    /\ obj = None
    /\ rendered = << >>

Init == InitClient /\ InitCalls /\ InitTypes

Dispatch ==
    \E path \in DispatchPaths, method \in Verbs, resp \in DispatchResponses :
        LET r == _make_request(path, method, None, resp)
        IN /\ call' = [op |-> "_make_request", args |-> <<PyStr(path), PyStr(method)>>]
           /\ request' = r.sent
           /\ response' = resp
           /\ dispatched' = r.out
           /\ returned' = r.out
           /\ UNCHANGED <<ncalls, nrequests, nwrites>>
           /\ UNCHANGED clientVars
           /\ UNCHANGED typeVars

NextDispatch == Dispatch

SpecDispatch == Init /\ [][NextDispatch]_vars

-----------------------------------------------------------------------------
(* Spec: the public methods of Exaroton.  The remote API answers each      *)
(* endpoint with one of its documented payloads, with an error document,   *)
(* with a gateway's HTML page, or not at all.                              *)

Json(doc, status) == Response("application/json", JsonText(doc), status)
Text(content) == Response("text/plain;charset=UTF-8", content, 200)
Failures ==
    {Json(ErrorDoc, 404), Response("text/html", "<html>Bad Gateway</html>", 502),
     ConnectionError}
Answers(docs) == {Json(Envelope(d), 200) : d \in docs} \cup Failures
Acks == Answers({None, PyStr("x")}) \cup {Text(HelloText)}
Files ==
    Failures \cup
    {Response("image/png", PngBytes, 200), Response("application/octet-stream", PngBytes, 200),
     Text("motd=hi"), Json(Envelope(PyDict(<< <<"ram", PyInt(4)>> >>)), 200)}

Ids == {"abc123", "def456"}
FilePaths == {"server-icon.png"}
PlayerLists == {"whitelist"}
Usernames == {<<PyStr("steve")>>, <<PyStr("alex"), PyStr("steve")>>}
Rams == {2, 4}
Commands == {"say Hello World"}
PoolIds == {"p1"}

\* A method that calls self._make_request once, its result being mr, and
\* then returns (or raises) result.
Invoke(op, args, resp, mr, result) ==
    /\ ncalls < MaxCalls
    /\ call' = [op |-> op, args |-> args]
    /\ request' = mr.sent
    /\ response' = resp
    /\ dispatched' = mr.out
    /\ returned' = result
    /\ ncalls' = ncalls + 1
    /\ nrequests' = nrequests + 1
    /\ UNCHANGED nwrites
    /\ UNCHANGED clientVars
    /\ UNCHANGED typeVars

get_account ==
    \E resp \in Answers({AccountPayload}) :
        LET mr == _make_request("account", "get", None, resp)
            _data == GetItem(mr.out, "data")
        IN Invoke("get_account", << >>, resp, mr, TypesCall("Account", _data))

get_servers ==
    \E resp \in Answers({PyList(<<Server1, Server2>>), PyList(<< >>)}) :
        LET mr == _make_request("servers", "get", None, resp)
            _data == GetItem(mr.out, "data")
        IN Invoke("get_servers", << >>, resp, mr, ListOf("Server", _data))

get_server ==
    \E id \in Ids, resp \in Answers({Server1, Server2}) :
        LET mr == _make_request("servers/" \o id, "get", None, resp)
            _data == GetItem(mr.out, "data")
        IN Invoke("get_server", <<PyStr(id)>>, resp, mr, TypesCall("Server", _data))

get_server_logs ==
    \E id \in Ids, resp \in Answers({PyDict(<< <<"content", PyStr("[12:00] Done")>> >>)}) :
        LET mr == _make_request("servers/" \o id \o "/logs", "get", None, resp)
            _data == GetItem(GetItem(mr.out, "data"), "content")
        IN Invoke("get_server_logs", <<PyStr(id)>>, resp, mr, _data)

upload_logs ==
    \E id \in Ids, resp \in Answers({LogsPayload}) :
        LET mr == _make_request("servers/" \o id \o "/logs/share", "get", None, resp)
            _data == GetItem(mr.out, "data")
        IN Invoke("upload_logs", <<PyStr(id)>>, resp, mr, TypesCall("Logs", _data))

get_server_ram ==
    \E id \in Ids, resp \in Answers({PyDict(<< <<"ram", PyInt(4)>> >>)}) :
        LET mr == _make_request("servers/" \o id \o "/options/ram", "get", None, resp)
            _data == GetItem(GetItem(mr.out, "data"), "ram")
        IN Invoke("get_server_ram", <<PyStr(id)>>, resp, mr, _data)

set_server_ram ==
    \E id \in Ids, ram \in Rams, resp \in Answers({PyDict(<< <<"ram", PyInt(4)>> >>)}) :
        LET mr == _make_request("servers/" \o id \o "/options/ram", "post",
                                PyDict(<< <<"ram", PyInt(ram)>> >>), resp)
            _data == GetItem(GetItem(mr.out, "data"), "ram")
        IN Invoke("set_server_ram", <<PyStr(id), PyInt(ram)>>, resp, mr, _data)

start ==
    \E id \in Ids, resp \in Acks :
        LET mr == _make_request("servers/" \o id \o "/start", "post", None, resp)
            _data == mr.out
        IN Invoke("start", <<PyStr(id)>>, resp, mr, _data)

stop ==
    \E id \in Ids, resp \in Acks :
        LET mr == _make_request("servers/" \o id \o "/stop", "post", None, resp)
            _data == mr.out
        IN Invoke("stop", <<PyStr(id)>>, resp, mr, _data)

restart ==
    \E id \in Ids, resp \in Acks :
        LET mr == _make_request("servers/" \o id \o "/restart", "post", None, resp)
            _data == mr.out
        IN Invoke("restart", <<PyStr(id)>>, resp, mr, _data)

command ==
    \E id \in Ids, cmd \in Commands, resp \in Acks :
        LET mr == _make_request("servers/" \o id \o "/command", "post",
                                PyDict(<< <<"command", PyStr(cmd)>> >>), resp)
            _data == GetItem(mr.out, "data")
        IN Invoke("command", <<PyStr(id), PyStr(cmd)>>, resp, mr, _data)

get_player_lists ==
    \E id \in Ids, resp \in Answers({PyList(<<PyStr("whitelist"), PyStr("ops")>>)}) :
        LET mr == _make_request("servers/" \o id \o "/playerlists", "get", None, resp)
            _data == GetItem(mr.out, "data")
        IN Invoke("get_player_lists", <<PyStr(id)>>, resp, mr, _data)

get_player_list ==
    \E id \in Ids, player_list \in PlayerLists,
       resp \in Answers({PyList(<<PyStr("alex"), PyStr("steve")>>)}) :
        LET mr == _make_request("servers/" \o id \o "/playerlists/" \o player_list,
                                "get", None, resp)
            _data == GetItem(mr.out, "data")
        IN Invoke("get_player_list", <<PyStr(id), PyStr(player_list)>>, resp, mr, _data)

add_player_to_list ==
    \E id \in Ids, player_list \in PlayerLists, usernames \in Usernames,
       resp \in Answers({PyList(<<PyStr("alex"), PyStr("steve")>>)}) :
        LET mr == _make_request("servers/" \o id \o "/playerlists/" \o player_list, "put",
                                PyDict(<< <<"entries", PyList(usernames)>> >>), resp)
            _data == GetItem(mr.out, "data")
        IN Invoke("add_player_to_list",
                  <<PyStr(id), PyStr(player_list), PyList(usernames)>>, resp, mr, _data)

remove_player_from_list ==
    \E id \in Ids, player_list \in PlayerLists, usernames \in Usernames,
       resp \in Answers({PyList(<< >>)}) :
        LET mr == _make_request("servers/" \o id \o "/playerlists/" \o player_list, "delete",
                                PyDict(<< <<"entries", PyList(usernames)>> >>), resp)
            _data == GetItem(mr.out, "data")
        IN Invoke("remove_player_from_list",
                  <<PyStr(id), PyStr(player_list), PyList(usernames)>>, resp, mr, _data)

get_file_data ==
    \E id \in Ids, path \in FilePaths, resp \in Files :
        LET mr == _make_request("servers/" \o id \o "/files/data/" \o path, "get", None, resp)
            _data == mr.out
        IN Invoke("get_file_data", <<PyStr(id), PyStr(path)>>, resp, mr, _data)

\* write_file_data with a request, as its commented-out line would send it.
write_file_data_sends ==
    \E id \in Ids, path \in FilePaths, resp \in Files :
        LET mr == _make_request("servers/" \o id \o "/files/data/" \o path, "put", None, resp)
        IN /\ Invoke("write_file_data", <<PyStr(id), PyStr(path), None>>, resp, mr, mr.out)

write_file_data ==
    \E id \in {None} \cup {PyStr(i) : i \in Ids},
       path \in {None} \cup {PyStr(f) : f \in FilePaths},
       data \in {None, PyBytes("motd=hi")} :
        /\ ncalls < MaxCalls
        /\ call' = [op |-> "write_file_data", args |-> <<id, path, data>>]
        /\ returned' = Raise("NotImplementedError")
        /\ ncalls' = ncalls + 1
        /\ nwrites' = nwrites + 1
        /\ UNCHANGED <<request, response, dispatched, nrequests>>
        /\ UNCHANGED clientVars
        /\ UNCHANGED typeVars

\* delete_file_data left a stub, as write_file_data is.
delete_file_data_stub ==
    \E id \in Ids, path \in FilePaths :
        /\ ncalls < MaxCalls
        /\ call' = [op |-> "delete_file_data", args |-> <<PyStr(id), PyStr(path)>>]
        /\ returned' = Raise("NotImplementedError")
        /\ ncalls' = ncalls + 1
        /\ UNCHANGED <<request, response, dispatched, nrequests, nwrites>>
        /\ UNCHANGED clientVars
        /\ UNCHANGED typeVars

delete_file_data ==
    \E id \in Ids, path \in FilePaths, resp \in Answers({None}) :
        LET mr == _make_request("servers/" \o id \o "/files/data/" \o path, "delete", None, resp)
            _data == mr.out
        IN Invoke("delete_file_data", <<PyStr(id), PyStr(path)>>, resp, mr, _data)

PoolDocs == {PyList(<<Pool("p1"), Pool("p2")>>), PyList(<<Pool("p2"), Pool("p1")>>), PyList(<< >>)}
MemberDocs == {PyList(<<Member("m1"), Member("m2")>>), PyList(<< >>)}
ServerDocs == {PyList(<<Server1, Server2>>), PyList(<<Server2, Server1>>), PyList(<< >>)}

get_credit_pools ==
    \E resp \in Answers(PoolDocs) :
        LET mr == _make_request("billing/pools", "get", None, resp)
            _data == GetItem(mr.out, "data")
        IN Invoke("get_credit_pools", << >>, resp, mr, ListOf("CreditPool", _data))

get_credit_pool ==
    \E id \in PoolIds, resp \in Answers({Pool("p1")}) :
        LET mr == _make_request("billing/pools/" \o id, "get", None, resp)
            _data == GetItem(mr.out, "data")
        IN Invoke("get_credit_pool", <<PyStr(id)>>, resp, mr, TypesCall("CreditPool", _data))

get_credit_pool_members ==
    \E id \in PoolIds, resp \in Answers(MemberDocs) :
        LET mr == _make_request("billing/pools/" \o id \o "/members", "get", None, resp)
            _data == GetItem(mr.out, "data")
        IN Invoke("get_credit_pool_members", <<PyStr(id)>>, resp, mr,
                  ListOf("CreditPoolMember", _data))

get_credit_pool_servers ==
    \E id \in PoolIds, resp \in Answers(ServerDocs) :
        LET mr == _make_request("billing/pools/" \o id \o "/servers", "get", None, resp)
            _data == GetItem(mr.out, "data")
        IN Invoke("get_credit_pool_servers", <<PyStr(id)>>, resp, mr, ListOf("Server", _data))

Next ==
    \/ get_account
    \/ get_servers
    \/ get_server
    \/ get_server_logs
    \/ upload_logs
    \/ get_server_ram
    \/ set_server_ram
    \/ start
    \/ stop
    \/ restart
    \/ command
    \/ get_player_lists
    \/ get_player_list
    \/ add_player_to_list
    \/ remove_player_from_list
    \/ get_file_data
    \/ write_file_data
    \/ delete_file_data
    \/ get_credit_pools
    \/ get_credit_pool
    \/ get_credit_pool_members
    \/ get_credit_pool_servers

Spec == Init /\ [][Next]_vars

-----------------------------------------------------------------------------
(* SpecTypes: the domain types, constructed from payloads and rendered.    *)

WireStatuses == {PyInt(c) : c \in (-1)..MaxStatusCode} \cup {None}
Motds == {PyStr("hi"), None}
PlayerNames == {<< >>, <<PyStr("a"), PyStr("b")>>}
Versions == {PyStr("1.20"), None}
ServerIds == {"abc123", "def456"}

ServerPayloads ==
    {ServerPayload(id, status, motd, names, version) :
        id \in {"abc123"}, status \in WireStatuses, motd \in Motds,
        names \in PlayerNames, version \in Versions}

\* The payloads a list of servers is built from.
ListedServers ==
    {ServerPayload(id, status, motd, << >>, PyStr("1.20")) :
        id \in ServerIds, status \in {PyInt(1), PyInt(9)}, motd \in Motds}

AccountPayloads ==
    {PyDict(<< <<"name", PyStr("colin")>>, <<"email", email>>,
               <<"verified", PyBool(v)>>, <<"credits", credits>> >>) :
        email \in {PyStr("c@example.com"), None}, v \in BOOLEAN, credits \in {PyInt(5), None}}

LogsPayloads ==
    {PyDict(<< <<"id", PyStr("L1")>>, <<"url", url>>, <<"raw", raw>> >>) :
        url \in {PyStr("https://mclo.gs/L1"), None}, raw \in {PyBytes("L1"), None}}

Construct(kwargs, o) ==
    /\ payload' = kwargs
    /\ obj' = o
    /\ rendered' = << >>
    /\ UNCHANGED clientVars
    /\ UNCHANGED callVars

NewAccount == \E kwargs \in AccountPayloads : Construct(kwargs, Account(kwargs))

NewLogs == \E kwargs \in LogsPayloads : Construct(kwargs, Logs(kwargs))

NewServer == \E kwargs \in ServerPayloads : Construct(kwargs, Server(kwargs))

NewServerList ==
    \E a \in ListedServers, b \in ListedServers :
        Construct(PyList(<<a, b>>), ListOf("Server", PyList(<<a, b>>)))

Render ==
    /\ ~IsNone(obj)
    /\ ~IsRaise(obj)
    /\ rendered = << >>
    /\ rendered' = __str__(obj)
    /\ UNCHANGED <<payload, obj>>
    /\ UNCHANGED clientVars
    /\ UNCHANGED callVars

NextTypes ==
    \/ NewAccount
    \/ NewLogs
    \/ NewServer
    \/ NewServerList
    \/ Render

SpecTypes == Init /\ [][NextTypes]_vars

-----------------------------------------------------------------------------
(* The claims. *)

Answered == request # NoRequest /\ response.raised = "" /\ "content-type" \in DOMAIN response.headers
DeclaredType == response.headers["content-type"]
IsJsonText(text) == \E d \in JsonDocs : JsonText(d) = text

\* The media type of a content-type header value: the value without its parameters.
MediaTypeOf(ct) ==
    IF ct \in {"text/plain;charset=UTF-8", "text/plain", "text/plain; charset=utf-8",
               "text/plain;charset=ISO-8859-1"}
    THEN "text/plain"
    ELSE ct

\* C1: a response declared application/json, text/plain;charset=UTF-8,
\* application/octet-stream or image/png is returned as the parsed JSON
\* document (the one whose text is the body), the UTF-8 decoded string, the raw
\* bytes, the raw bytes; the result is a function of the content type and the
\* body alone, whatever the path, the verb and the status (a body that is
\* not JSON, or not UTF-8, makes the decoder itself raise).
C1_SupportedTypesDecoded ==
    (Answered /\ DeclaredType \in {"application/json", "text/plain;charset=UTF-8",
                                   "application/octet-stream", "image/png"}) =>
        CASE DeclaredType = "application/json" ->
                 IF IsJsonText(response.content)
                 THEN dispatched.t = "dict" /\ JsonText(dispatched) = response.content
                 ELSE dispatched = Raise("JSONDecodeError")
          [] DeclaredType = "text/plain;charset=UTF-8" ->
                 IF response.content \in NotUtf8
                 THEN dispatched = Raise("UnicodeDecodeError")
                 ELSE dispatched = PyStr(response.content)
          [] OTHER -> dispatched = PyBytes(response.content)

C1_Witness ==
    /\ Answered
    /\ DeclaredType = "application/json"
    /\ response.status = 404
    /\ request.method = "post"
    /\ dispatched = ErrorDoc

\* C2: a response whose content type is not a recognized one makes
\* _make_request fail: it raises, and returns nothing (not even None).
C2_UnrecognizedTypeFails ==
    (Answered /\ MediaTypeOf(DeclaredType) \notin
        {"application/json", "text/plain", "application/octet-stream", "image/png"}) =>
        IsRaise(dispatched)

\* C3: a text/plain response is decoded to a string whatever the charset
\* parameter of its content-type header, and without one.
C3_TextPlainAnyCharset ==
    (Answered /\ MediaTypeOf(DeclaredType) = "text/plain" /\ response.content \notin NotUtf8) =>
        dispatched = PyStr(response.content)

\* The label the fixed table gives a status code, "" where it has none.
TableLabel(code) ==
    CASE code = 0 -> "Offline" [] code = 1 -> "Online" [] code = 2 -> "Starting"
      [] code = 3 -> "Stopping" [] code = 4 -> "Restarting" [] code = 5 -> "Saving"
      [] code = 6 -> "Loading" [] code = 7 -> "Crashed" [] code = 8 -> "Pending"
      [] code = 10 -> "Preparing" [] OTHER -> ""

StatusAsTabled(kwargs, server) ==
    LET wire == Lookup(kwargs, "status")
        status == Lookup(server, "status")
    IN /\ status.t \in {"str", "NoneType"}
       /\ wire.t = "int" =>
            IF TableLabel(wire.v) # "" THEN status = PyStr(TableLabel(wire.v)) ELSE status = None

\* C4: a Server built from a payload with an integer status code has the
\* label the table gives the code (0..8 and 10), or no status for any other
\* integer; its status is a label or absent, never the numeric code.
C4_StatusLabel ==
    /\ obj.t = "Server" => StatusAsTabled(payload, obj)
    /\ obj.t = "List" => \A i \in 1..Len(obj.v) : StatusAsTabled(payload.v[i], obj.v[i])

C4_Witness ==
    /\ obj.t = "Server"
    /\ Lookup(payload, "status") = PyInt(10)
    /\ Lookup(obj, "status") = PyStr("Preparing")

\* C5: every invocation of write_file_data, whatever its arguments and
\* whatever came before, raises NotImplementedError and sends no request.
C5_WriteNotImplemented ==
    [][(call'.op = "write_file_data" /\ ncalls' = ncalls + 1) =>
          /\ returned' = Raise("NotImplementedError")
          /\ nrequests' = nrequests
          /\ request' = request]_vars

C5_Witness ==
    /\ call.op = "write_file_data"
    /\ call.args = <<None, None, None>>
    /\ returned = Raise("NotImplementedError")
    /\ ncalls = 2
    /\ nrequests = 1

EnvelopeData == Lookup(dispatched, "data")

\* One object of class cls per element of the payload list, in its order
\* (each holding the first field of its element).
OnePerElement(cls, result, data) ==
    /\ result.t = "List"
    /\ Len(result.v) = Len(data.v)
    /\ \A i \in 1..Len(data.v) :
          /\ result.v[i].t = cls
          /\ result.v[i].v[1] = data.v[i].v[1]

\* C6: on a well-formed JSON response with a data envelope, get_credit_pools
\* returns one CreditPool per payload element in order, get_credit_pool a
\* CreditPool, get_credit_pool_members one CreditPoolMember per element and
\* get_credit_pool_servers one Server per element; none of them raises.
C6_CreditPoolResults ==
    (/\ call.op \in {"get_credit_pools", "get_credit_pool", "get_credit_pool_members",
                     "get_credit_pool_servers"}
     /\ response.status = 200
     /\ dispatched.t = "dict"
     /\ "data" \in KeySet(dispatched)) =>
        CASE call.op = "get_credit_pools" -> OnePerElement("CreditPool", returned, EnvelopeData)
          [] call.op = "get_credit_pool" -> returned.t = "CreditPool"
          [] call.op = "get_credit_pool_members" ->
                 OnePerElement("CreditPoolMember", returned, EnvelopeData)
          [] call.op = "get_credit_pool_servers" -> OnePerElement("Server", returned, EnvelopeData)

\* C7 as stated: the requests sent are as many as the methods invoked.
C7_OneRequestPerCall == nrequests = ncalls

\* C7, amended: every invocation of a public method other than
\* write_file_data sends exactly one request, whether it returns or raises,
\* and write_file_data sends none; the answer to the request (a response,
\* or the transport's exception) is in before the method returns.
C7_OneRequestPerCallButWrite ==
    /\ nrequests = ncalls - nwrites
    /\ nrequests > 0 => response # NoResponse
    /\ (call.op \notin {"", "write_file_data"} /\ response.raised # "") =>
          returned = Raise(response.raised)

C7_Witness ==
    /\ ncalls = 2
    /\ nwrites = 1
    /\ nrequests = 1
    /\ call.op = "get_server"
    /\ returned = Raise("KeyError")

\* The paths of the API's endpoints.
ApiPaths ==
    {"account", "servers", "billing/pools"}
    \cup {"servers/" \o id \o tail : id \in Ids,
            tail \in {"", "/logs", "/logs/share", "/options/ram", "/start", "/stop",
                      "/restart", "/command", "/playerlists"}}
    \cup {"servers/" \o id \o "/playerlists/" \o l : id \in Ids, l \in PlayerLists}
    \cup {"servers/" \o id \o "/files/data/" \o f : id \in Ids, f \in FilePaths}
    \cup {"billing/pools/" \o id \o tail : id \in PoolIds, tail \in {"", "/members", "/servers"}}

\* C8: the construction sends nothing; every request sent afterwards,
\* whatever was invoked before and however it ended, carries
\* Authorization: Bearer <token> and goes to <host>/<path>; the stored host
\* and the session's Authorization header never change.
C8_BearerAndHost ==
    /\ self.host = arg_host
    /\ self.session.headers["Authorization"] = "Bearer " \o arg_token
    /\ ncalls = 0 => (nrequests = 0 /\ request = NoRequest)
    /\ request # NoRequest =>
          /\ request.headers["Authorization"] = "Bearer " \o arg_token
          /\ \E path \in ApiPaths : request.url = arg_host \o "/" \o path

C8_Witness ==
    /\ nrequests = 2
    /\ IsRaise(returned)
    /\ arg_token = "tokenB"
    /\ request.url = "http://localhost:8080/servers/abc123/command"
    /\ request.headers["Authorization"] = "Bearer tokenB"

\* C9: start, stop, restart and command each send a POST and return what
\* _make_request returned, as it is.
C9_ControlPassThrough ==
    call.op \in {"start", "stop", "restart", "command"} =>
        /\ request.method = "post"
        /\ returned = dispatched

\* The lines of the rendering at a nesting level that carry a key.
FieldLines(level, key) ==
    Cardinality({i \in 1..Len(rendered) : rendered[i].indent = level /\ rendered[i].key = key})

\* Each attribute of the objects (all of one class, all at one nesting
\* level) is written once for every object that has a value for it.
Shown(objs, level) ==
    \A o \in 1..Len(objs) : \A a \in 1..Len(objs[o].v) :
        LET key == objs[o].v[a][1]
        IN FieldLines(level, key) =
               Cardinality({j \in 1..Len(objs) : ~IsNone(Lookup(objs[j], key))})

\* Servers are written with their Players and their Software one level
\* down, and in the order of the sequence.
ServersShown(objs, level) ==
    /\ Shown(objs, level)
    /\ Shown([j \in 1..Len(objs) |-> Lookup(objs[j], "players")], level + 1)
    /\ Shown([j \in 1..Len(objs) |-> Lookup(objs[j], "software")], level + 1)
    /\ LET ids == SelectSeq(rendered, LAMBDA l : l.indent = level /\ l.key = "id")
       IN ids = [j \in 1..Len(objs) |->
                    Line(level, "id", "\"" \o Lookup(objs[j], "id").v \o "\"", TRUE)]

\* C10: the rendering of a domain value holds every public field that has
\* a value exactly once and no field that has none, for the value itself,
\* for the Players and Software nested in a Server, and for every element
\* of a types.List, in the order of the list.
C10_RenderedFields ==
    rendered # << >> =>
        /\ \A i \in 1..Len(rendered) : rendered[i].key # "" => rendered[i].text # "null"
        /\ CASE obj.t = "Server" -> ServersShown(<<obj>>, 1)
             [] obj.t = "List" -> ServersShown(obj.v, 2)
             [] OTHER -> Shown(<<obj>>, 1)

C10_Witness ==
    /\ obj.t = "List"
    /\ rendered # << >>
    /\ Lookup(obj.v[1], "motd") = None
    /\ Lookup(obj.v[2], "status") = PyStr("Online")
    /\ Lookup(obj.v[1], "id") # Lookup(obj.v[2], "id")

====
